---- MODULE Spec2Model ----
(***************************************************************************)
(* Threads keyword search proxy (src/app.py): the retrying HTTP client     *)
(* _get, the time normaliser _to_unix, keyword_search, get_post_fields,    *)
(* the search_and_filter pipeline and the two API handlers, as one request *)
(* travelling through the process.                                         *)
(***************************************************************************)
EXTENDS Integers, Sequences, FiniteSets, TLC

\* ---------------------------------------------------------------- bounds
MaxItems == 2      \* longest "data" list the upstream answers with
MaxLikes == 1      \* largest like_count / min_likes drawn

\* ------------------------------------------------------ program constants
MaxAttempts == 3          \* range(3)
UpstreamLimitCap == 200   \* min(200, ...)
UpstreamLimitFloor == 1   \* max(1, ...)
ApiLimitMax == 500        \* Query(200, ge=1, le=500)
ApiLimitMin == 1
ApiMinLikesMin == 0       \* Query(0, ge=0)
StatusOK == 200
GatewayStatus == 502
ServerErrorStatus == 500  \* an exception no handler is registered for
ValidationStatus == 422   \* a Query(...) constraint not met
RetrySleepTenths == 15    \* time.sleep(1.5 * (attempt + 1))
NetSleepTenths == 12      \* time.sleep(1.2 * (attempt + 1))

\* --------------------------------------------------------- Python values
\* str-typed values: None is kept apart from every string the model draws
None == "<None>"

\* A dict entry for like_count: the key may be absent, hold JSON null, or an int
Absent == [k |-> "absent", v |-> 0]
Null == [k |-> "null", v |-> 0]
IntV(n) == [k |-> "int", v |-> n]
LikeVals == {Absent, Null} \cup {IntV(n) : n \in 0..MaxLikes}

\* permalink entry: key absent, or the string the endpoint gave
NoKey == "<absent>"
SearchPermalinks == {NoKey, "p"}
DetailPermalinks == {NoKey, "p"}

\* exceptions
NoExc == [type |-> "None"]
RequestExc(kind) == [type |-> kind]
\* what requests.get raises: a RequestException
NetKinds == {"ConnectionError"}
NoDetail == [text |-> "", cause |-> NoExc]

\* mutant: 502 left out of the retried statuses
RetryableNoGateway == {429, 500, 503, 504}
\* if r.status_code in (429, 500, 502, 503, 504)
Retryable == {429, 500, 502, 503, 504}

\* statuses and body texts the upstream is drawn from
Statuses == {200, 404, 429, 501, 502, 503}
Texts == {"t1", "t2"}

\* ------------------------------------------------------------- _to_unix
\* dateutil's parse of the strings drawn: the seconds, or -1 for ParserError
ParseDate(s) ==
  CASE s = "2024-01-01" -> 1704067200
    [] s = "2024-01-02T00:00:00" -> 1704153600
    [] OTHER -> -1

\* _to_unix(ts): ok with the int, or not ok when dtparser.parse raises
ToUnix(ts) ==
  IF ts = None \/ ts = ""
  THEN [ok |-> TRUE, v |-> 0]
  ELSE IF ParseDate(ts) < 0
       THEN [ok |-> FALSE, v |-> 0]
       ELSE [ok |-> TRUE, v |-> ParseDate(ts)]

\* Python truthiness of an Optional[str]
Truthy(s) == s # None /\ s # ""

Min(a, b) == IF a < b THEN a ELSE b
Max(a, b) == IF a > b THEN a ELSE b

\* mutant: the lower clamp forgotten
ClampNoFloor(limit) == Min(UpstreamLimitCap, limit)
\* min(200, max(1, int(limit)))
Clamp(limit) == Min(UpstreamLimitCap, Max(UpstreamLimitFloor, limit))

\* ------------------------------------------------------------- upstream
\* one attempt's outcome: requests.get raises (t = "exc"), or answers with a
\* status, a body text and, when the text is JSON, the parsed dict in <<d>>
ExcOutcome(kind) == [t |-> "exc", kind |-> kind, status |-> 0, text |-> "", parsed |-> <<>>]
Response(status, text, parsed) ==
  [t |-> "resp", kind |-> "", status |-> status, text |-> text, parsed |-> parsed]

Item(id, lc, p) == [id |-> id, like_count |-> lc, permalink |-> p]
ItemLists ==
  UNION {{[j \in 1..n |-> Item(j, f[j][1], f[j][2])] :
            f \in [1..n -> LikeVals \X SearchPermalinks]} : n \in 0..MaxItems}
\* the search endpoint's JSON: "data" present with a list, or missing
SearchBodies == {[data |-> <<l>>] : l \in ItemLists} \cup {[data |-> <<>>]}
\* the detail endpoint's JSON: the fields it returns
DetailBodies == [like_count : LikeVals, permalink : DetailPermalinks]

\* r.text is read for a status that is rejected only (line 53): the other
\* answers are drawn with one text
TextsOf(status) == IF status = StatusOK \/ status \in Retryable THEN {"t1"} ELSE Texts
OutcomesOver(bodies) ==
  {ExcOutcome(k) : k \in NetKinds}
    \cup UNION {{Response(s, x, <<>>) : x \in TextsOf(s)} : s \in Statuses}
    \cup {Response(StatusOK, "<json>", <<b>>) : b \in bodies}
SearchOutcomes == OutcomesOver(SearchBodies)
\* which of the two r.json() failures the installed requests raises: open only
\* for a 200 answer whose body is not JSON
JsonErrCaught(o) ==
  IF o.t = "resp" /\ o.status = StatusOK /\ o.parsed = <<>> THEN BOOLEAN ELSE {TRUE}
DetailOutcomes == OutcomesOver(DetailBodies)

\* ----------------------------------------------------------- exceptions
HTTPException(status_code, detail) ==
  [type |-> "HTTPException", status_code |-> status_code, detail |-> detail]
Raised(type) == [type |-> type, status_code |-> 0, detail |-> NoDetail]
NoError == Raised("None")

\* ------------------------------------------------------------------ _get
\* mutant: the token is used without being checked
TokenUnchecked(tok) == TRUE
\* _get_token: the token is returned when set, RuntimeError otherwise
TokenOK(tok) == tok

\* result of one pass through the body of "for attempt in range(3)"
GetResult(kind, val, exc, attempt, last_exc, slept) ==
  [kind |-> kind, val |-> val, exc |-> exc, attempt |-> attempt,
   last_exc |-> last_exc, slept |-> slept]

\* mutant: the caught exception left out of the error
ExhaustedNoCause(last_exc) ==
  [type |-> "HTTPException", status_code |-> GatewayStatus,
   detail |-> [text |-> "Threads API connection failed", cause |-> NoExc]]
\* lines 57-59: what _get raises once the loop has run out
Exhausted(last_exc) ==
  HTTPException(GatewayStatus, [text |-> "Threads API connection failed", cause |-> last_exc])

\* except requests.RequestException as e: last_exc = e; sleep; next attempt,
\* or lines 57-59 when that was the last one
Caught(attempt, e) ==
  IF attempt + 1 < MaxAttempts
  THEN GetResult("next", <<>>, NoError, attempt + 1, e, NetSleepTenths * (attempt + 1))
  ELSE GetResult("raise", <<>>, Exhausted(e), attempt + 1, e, NetSleepTenths * (attempt + 1))

\* mutant: one attempt more after a retryable status
RetryOnceMore(attempt, last_exc) ==
  IF attempt < MaxAttempts
  THEN GetResult("next", <<>>, NoError, attempt + 1, last_exc,
                 RetrySleepTenths * (attempt + 1))
  ELSE GetResult("raise", <<>>, Exhausted(last_exc), attempt + 1, last_exc,
                 RetrySleepTenths * (attempt + 1))
\* a retryable status: sleep; continue, or lines 57-59 after the last attempt
Retry(attempt, last_exc) ==
  IF attempt + 1 < MaxAttempts
  THEN GetResult("next", <<>>, NoError, attempt + 1, last_exc,
                 RetrySleepTenths * (attempt + 1))
  ELSE GetResult("raise", <<>>, Exhausted(last_exc), attempt + 1, last_exc,
                 RetrySleepTenths * (attempt + 1))

\* mutant: "except Exception", which catches the HTTPException as well
RejectCaught(attempt, last_exc, o) == Caught(attempt, RequestExc("HTTPException"))
\* raise HTTPException(status_code=r.status_code, detail=r.text): not a
\* RequestException, so it leaves _get
Reject(attempt, last_exc, o) ==
  GetResult("raise", <<>>, HTTPException(o.status, [text |-> o.text, cause |-> NoExc]),
            attempt, last_exc, 0)

\* mutant: the body is read but the loop goes on
OnStatusOKNoReturn(attempt, last_exc, o, jsonErrCaught) == Retry(attempt, last_exc)
\* return r.json(). A body that is not JSON makes r.json() raise: a
\* requests.JSONDecodeError, which is a RequestException (caught, retried), where
\* the installed requests is 2.27 or later; a plain ValueError (not caught) before
OnStatusOK(attempt, last_exc, o, jsonErrCaught) ==
  IF o.parsed # <<>>
  THEN GetResult("return", o.parsed, NoError, attempt, last_exc, 0)
  ELSE IF jsonErrCaught
       THEN Caught(attempt, RequestExc("JSONDecodeError"))
       ELSE GetResult("raise", <<>>, Raised("ValueError"), attempt, last_exc, 0)

\* lines 45-59, one iteration
GetAttempt(attempt, last_exc, o, jsonErrCaught) ==
  IF o.t = "exc"
  THEN Caught(attempt, RequestExc(o.kind))
  ELSE IF o.status = StatusOK
       THEN OnStatusOK(attempt, last_exc, o, jsonErrCaught)
       ELSE IF o.status \in Retryable
            THEN Retry(attempt, last_exc)
            ELSE Reject(attempt, last_exc, o)

\* ------------------------------------------------------------ dict reads
\* item.get("like_count"): None when the key is absent or holds null
IsNone(lc) == lc.k # "int"
\* (lk or 0)
OrZero(lc) == IF lc.k = "int" THEN lc.v ELSE 0
\* item.get("like_count", 0): the default replaces an absent key only
GetOrZero(lc) == IF lc.k = "absent" THEN IntV(0) ELSE lc

\* mutant: only a missing like-count sends the item to the detail endpoint
NeedsDetailLikesOnly(item) == IsNone(item.like_count)
\* if lk is None or ("permalink" not in item)
NeedsDetail(item) == IsNone(item.like_count) \/ item.permalink = NoKey

\* mutant: the detail fills in missing keys only (setdefault for update)
UpdateMissingOnly(item, detail) ==
  [item EXCEPT !.like_count = IF @ = Absent THEN detail.like_count ELSE @,
               !.permalink = IF @ = NoKey THEN detail.permalink ELSE @]
\* item.update(detail): every key of detail overwrites, the others stay
Update(item, detail) ==
  [item EXCEPT !.like_count = IF detail.like_count = Absent THEN @ ELSE detail.like_count,
               !.permalink = IF detail.permalink = NoKey THEN @ ELSE detail.permalink]

\* mutant: > for >=
KeepAbove(lk, min_likes) == OrZero(lk) > min_likes
\* if (lk or 0) >= int(min_likes)
Keep(lk, min_likes) == OrZero(lk) >= min_likes

\* ------------------------------------------------------------------ sort
\* key=lambda x: x.get("like_count", 0)
SortKey(item) == GetOrZero(item.like_count)

\* comparing None with an int, or with None, raises TypeError; a list of fewer
\* than two elements is never compared
SortRaises(items) ==
  Len(items) >= 2 /\ \E k \in 1..Len(items) : SortKey(items[k]).k = "null"

RECURSIVE InsertAtUnstable(_, _, _)
\* mutant: an equal key is overtaken, so ties come out reversed
InsertAtUnstable(sorted, x, k) ==
  IF k = 0 \/ SortKey(sorted[k]).v > SortKey(x).v
  THEN SubSeq(sorted, 1, k) \o <<x>> \o SubSeq(sorted, k + 1, Len(sorted))
  ELSE InsertAtUnstable(sorted, x, k - 1)

RECURSIVE InsertAt(_, _, _)
\* the position x takes among sorted[1..k]: behind every key >= its own
InsertAt(sorted, x, k) ==
  IF k = 0 \/ SortKey(sorted[k]).v >= SortKey(x).v
  THEN SubSeq(sorted, 1, k) \o <<x>> \o SubSeq(sorted, k + 1, Len(sorted))
  ELSE InsertAt(sorted, x, k - 1)

RECURSIVE SortDesc(_)
\* results.sort(key=..., reverse=True): stable, descending
SortDesc(items) ==
  IF items = <<>>
  THEN <<>>
  ELSE LET front == SortDesc(SubSeq(items, 1, Len(items) - 1))
       IN InsertAt(front, items[Len(items)], Len(front))

\* --------------------------------------------------------------- requests
Limits == {0, 1, 200, 201}

Request(entry, q, min_likes, limit, since, until) ==
  [entry |-> entry, q |-> q, min_likes |-> min_likes, limit |-> limit,
   since |-> since, until |-> until]

\* the requests drawn: every entry point; every threshold and every limit on
\* search_and_filter; the time bounds, alone and in pairs; and the inputs the
\* Query constraints refuse
Requests ==
  {Request("search_and_filter", "k", m, 200, None, None) : m \in 0..MaxLikes}
    \cup {Request("search_and_filter", "k", 0, l, None, None) : l \in Limits}
    \cup {Request(e, "k", 0, l, None, None) :
            e \in {"api_search", "api_export"}, l \in {0, 501}}
    \cup {Request("api_search", "k", 0, 500, None, None)}
    \cup {Request(e, "k", 0, 200, "notadate", None) : e \in {"api_search", "api_export"}}
    \cup {Request(e, "k", 0, 200, None, "notadate") : e \in {"api_search", "api_export"}}
    \cup {Request("api_search", "k", 0, 200, s, u) :
            s \in {None, "2024-01-01"}, u \in {None, "2024-01-02T00:00:00"}}
    \cup {Request("api_search", "k", 0, 200, "", None)}
    \cup {Request(e, "", 0, 200, None, None) : e \in {"api_search", "api_export"}}
    \cup {Request(e, "k", -1, 200, None, None) : e \in {"api_search", "api_export"}}
    \cup {Request("api_export", "k", 0, 200, None, None)}

\* Query(..., min_length=1), Query(0, ge=0), Query(200, ge=1, le=500)
ValidSearch(r) ==
  /\ r.q # ""
  /\ r.min_likes >= ApiMinLikesMin
  /\ r.limit >= ApiLimitMin /\ r.limit <= ApiLimitMax
\* Query(...), Query(0, ge=0), Query(200, ge=1, le=500)
ValidExport(r) ==
  /\ r.min_likes >= ApiMinLikesMin
  /\ r.limit >= ApiLimitMin /\ r.limit <= ApiLimitMax
Valid(r) ==
  CASE r.entry = "api_search" -> ValidSearch(r)
    [] r.entry = "api_export" -> ValidExport(r)
    [] OTHER -> TRUE

\* what the caller of the entry point sees of an exception: the framework
\* answers an HTTPException with its status_code and anything else with 500;
\* a direct caller of search_and_filter gets the exception (status 0)
StatusOf(entry, exc) ==
  IF entry = "search_and_filter"
  THEN 0
  ELSE IF exc.type = "HTTPException" THEN exc.status_code ELSE ServerErrorStatus

\* ------------------------------------------------------------ keyword_search
NoParams == [limit |-> 0, since |-> <<>>, until |-> <<>>]
\* lines 70-74: the params dict, or the ParserError of _to_unix
BuildParams(r) ==
  LET s == ToUnix(r.since)
      u == ToUnix(r.until)
  IN IF Truthy(r.since) /\ ~s.ok
     THEN [ok |-> FALSE, params |-> NoParams]
     ELSE IF Truthy(r.until) /\ ~u.ok
          THEN [ok |-> FALSE, params |-> NoParams]
          ELSE [ok |-> TRUE,
                params |-> [limit |-> Clamp(r.limit),
                            since |-> IF Truthy(r.since) THEN <<s.v>> ELSE <<>>,
                            until |-> IF Truthy(r.until) THEN <<u.v>> ELSE <<>>]]

\* ---------------------------------------------------------------- export
Fields == <<"id", "permalink", "text", "username", "like_count", "reply_count",
            "repost_count", "created_time">>
CellEmpty == [k |-> "empty", s |-> "", n |-> 0]
CellStr(s) == [k |-> "str", s |-> s, n |-> 0]
CellInt(n) == [k |-> "int", s |-> "", n |-> n]
\* DictWriter: a missing key (restval "") and a None value both give an empty
\* cell
CellOf(item, field) ==
  IF field \notin DOMAIN item
  THEN CellEmpty
  ELSE CASE field = "id" -> CellInt(item.id)
         [] field = "permalink" ->
              IF item.permalink = NoKey THEN CellEmpty ELSE CellStr(item.permalink)
         [] field = "like_count" ->
              IF item.like_count.k = "int" THEN CellInt(item.like_count.v) ELSE CellEmpty
         [] OTHER -> IF item[field] = None THEN CellEmpty ELSE CellStr(item[field])
\* mutant: the header is written with the first row only
ToCsvHeaderWithRows(rows) ==
  (IF rows = <<>> THEN <<>> ELSE <<[c \in 1..Len(Fields) |-> CellStr(Fields[c])]>>)
    \o [k \in 1..Len(rows) |-> [c \in 1..Len(Fields) |-> CellOf(rows[k], Fields[c])]]
\* lines 123-128: the header, then one row per item; extrasaction="ignore"
\* leaves a key that is no column out
ToCsv(rows) ==
  <<[c \in 1..Len(Fields) |-> CellStr(Fields[c])]>>
    \o [k \in 1..Len(rows) |-> [c \in 1..Len(Fields) |-> CellOf(rows[k], Fields[c])]]

\* the rows search_and_filter may hand to api_export: items as above, with or
\* without a text (which may be null) and with or without a key that is no
\* column of the CSV
NoMore == [x \in {} |-> None]
TextParts == {NoMore, "text" :> None, "text" :> "hello"}
ExtraParts == {NoMore, "shortcode" :> "abc"}
PostShapes == LikeVals \X SearchPermalinks \X TextParts \X ExtraParts
Post(id, shape) == Item(id, shape[1], shape[2]) @@ shape[3] @@ shape[4]


\* ------------------------------------------------------------------ state
VARIABLES
  token,      \* os.getenv("THREADS_TOKEN") is set
  req,        \* the call of the entry point being handled
  pc,         \* where the handling stands
  params,     \* keyword_search's params dict
  attempt,    \* _get's loop variable
  last_exc,   \* _get's last_exc
  log,        \* the attempts of keyword_search's _get call so far, each with its
              \* outcome and the tenths of a second slept after it; dropped
              \* once search_and_filter moves on to its loop
  calls,      \* the _get calls that reached their request loop, in order
  raw,        \* the list keyword_search returned; item.update changes it in place
  i,          \* position of "for item in raw" (1-based)
  results,    \* the kept items, as positions in raw (the list holds references)
  detail,     \* the dict get_post_fields returned for the item at hand, from
              \* line 89 until lines 90-91 have used it
  nreq,       \* the requests.get calls made so far, where they are counted
  outcome     \* what the caller of the entry point got

vars ==
  <<token, req, pc, params, attempt, last_exc, log, calls, raw, i, results, detail, nreq,
    outcome>>

Pending == [kind |-> "pending", status |-> 0, exc |-> NoError, items |-> <<>>, csv |-> <<>>]
Failed(entry, exc) ==
  [kind |-> "error", status |-> StatusOf(entry, exc), exc |-> exc, items |-> <<>>,
   csv |-> <<>>]
\* api_search: {"count": len(items), "items": items}; api_export: the CSV;
\* search_and_filter: the list
Succeeded(entry, items) ==
  [kind |-> "ok", status |-> IF entry = "search_and_filter" THEN 0 ELSE StatusOK,
   exc |-> NoError, items |-> items,
   csv |-> IF entry = "api_export" THEN ToCsv(items) ELSE <<>>]

\* a _get call: its endpoint, the media id of a detail call, and how it ended
Call(url, id, result) == [url |-> url, id |-> id, result |-> result]
SearchCall == Call("keyword_search", 0, "pending")
\* mutant: every detail call asks for the first item of the response
DetailCallFirstItem(id) == Call("media", 1, "pending")
DetailCall(id) == Call("media", id, "pending")
Ended(cs, result) == [cs EXCEPT ![Len(cs)].result = result]

Init ==
  /\ token \in BOOLEAN
  /\ req \in Requests
  /\ pc = "start"
  /\ params = NoParams
  /\ attempt = 0
  /\ last_exc = NoExc
  /\ log = <<>>
  /\ calls = <<>>
  /\ raw = <<>>
  /\ i = 0
  /\ results = <<>>
  /\ detail = <<>>
  /\ nreq = 0
  /\ outcome = Pending

\* the framework refuses a request that breaks a Query constraint
RejectRequest ==
  /\ pc = "start"
  /\ ~Valid(req)
  /\ pc' = "done"
  /\ outcome' = [Pending EXCEPT !.kind = "error", !.status = ValidationStatus,
                                !.exc = Raised("RequestValidationError")]
  /\ UNCHANGED <<token, req, params, attempt, last_exc, log, calls, raw, i, results, detail,
                 nreq>>

\* the handler calls search_and_filter, which calls keyword_search (lines 69-75),
\* which builds params and enters _get (lines 42-44)
BeginSearch ==
  /\ pc = "start"
  /\ Valid(req)
  /\ LET b == BuildParams(req)
     IN IF ~b.ok
        THEN /\ pc' = "done"
             /\ outcome' = Failed(req.entry, Raised("ParserError"))
             /\ UNCHANGED <<params, calls>>
        ELSE IF ~TokenOK(token)
             THEN /\ pc' = "done"
                  /\ outcome' = Failed(req.entry, Raised("RuntimeError"))
                  /\ params' = b.params
                  /\ UNCHANGED calls
             ELSE /\ pc' = "search"
                  /\ params' = b.params
                  /\ calls' = <<SearchCall>>
                  /\ UNCHANGED outcome
  /\ UNCHANGED <<token, req, attempt, last_exc, log, raw, i, results, detail, nreq>>

\* one iteration of _get's loop for the keyword-search call; on return,
\* keyword_search takes .get("data", []) of the body. The requests.get call
\* counts n on nreq
SearchIteration(n) ==
  /\ pc = "search"
  /\ \E o \in SearchOutcomes : \E jsonErrCaught \in JsonErrCaught(o) :
       LET g == GetAttempt(attempt, last_exc, o, jsonErrCaught)
       IN /\ log' = Append(log, [o |-> o, slept |-> g.slept])
          /\ CASE g.kind = "next" ->
                    /\ attempt' = g.attempt
                    /\ last_exc' = g.last_exc
                    /\ UNCHANGED <<pc, raw, outcome, calls>>
               [] g.kind = "raise" ->
                    /\ pc' = "done"
                    /\ outcome' = Failed(req.entry, g.exc)
                    /\ calls' = Ended(calls, "raised")
                    /\ attempt' = 0
                    /\ last_exc' = NoExc
                    /\ UNCHANGED raw
               [] g.kind = "return" ->
                    /\ pc' = "searched"
                    /\ calls' = Ended(calls, "returned")
                    /\ raw' = IF g.val[1].data = <<>> THEN <<>> ELSE g.val[1].data[1]
                    /\ attempt' = 0
                    /\ last_exc' = NoExc
                    /\ UNCHANGED outcome
  /\ nreq' = nreq + n
  /\ UNCHANGED <<token, req, params, i, results, detail>>

\* line 84: results = [], and the loop over raw starts
StartLoop ==
  /\ pc = "searched"
  /\ pc' = "loop"
  /\ i' = 1
  /\ results' = <<>>
  /\ log' = <<>>
  /\ UNCHANGED <<token, req, params, attempt, last_exc, calls, raw, detail, nreq, outcome>>

\* lines 94-95 for the item at position i with the like-count lk
Filtered(lk) == IF Keep(lk, req.min_likes) THEN Append(results, i) ELSE results

\* lines 85-89 and 94-95: the next item; it goes to the filter at once, or
\* get_post_fields enters _get for it (without a token _get raises, line 93 takes over)
Iterate ==
  /\ pc = "loop"
  /\ i <= Len(raw)
  /\ LET item == raw[i]
         lk == item.like_count
     IN IF NeedsDetail(item)
        THEN IF TokenOK(token)
             THEN /\ pc' = "detail"
                  /\ calls' = Append(calls, DetailCall(item.id))
                  /\ UNCHANGED <<i, results>>
             ELSE /\ results' = Filtered(IntV(OrZero(lk)))
                  /\ i' = i + 1
                  /\ UNCHANGED <<pc, calls>>
        ELSE /\ results' = Filtered(lk)
             /\ i' = i + 1
             /\ UNCHANGED <<pc, calls>>
  /\ UNCHANGED <<token, req, params, attempt, last_exc, log, raw, detail, nreq, outcome>>

\* one iteration of _get's loop for the detail call of item i; when the call
\* raises, lines 92-93 (any exception) and 94-95; when it returns, line 89 has
\* the dict. The requests.get call counts n on nreq
DetailIteration(n) ==
  /\ pc = "detail"
  /\ \E o \in DetailOutcomes : \E jsonErrCaught \in JsonErrCaught(o) :
       LET g == GetAttempt(attempt, last_exc, o, jsonErrCaught)
           item == raw[i]
       IN CASE g.kind = "next" ->
                 /\ attempt' = g.attempt
                 /\ last_exc' = g.last_exc
                 /\ UNCHANGED <<pc, i, results, calls, detail>>
            [] g.kind = "raise" ->
                 /\ pc' = "loop"
                 /\ calls' = Ended(calls, "raised")
                 /\ results' = Filtered(IntV(OrZero(item.like_count)))
                 /\ i' = i + 1
                 /\ attempt' = 0
                 /\ last_exc' = NoExc
                 /\ UNCHANGED detail
            [] g.kind = "return" ->
                 /\ pc' = "merge"
                 /\ calls' = Ended(calls, "returned")
                 /\ detail' = g.val
                 /\ attempt' = 0
                 /\ last_exc' = NoExc
                 /\ UNCHANGED <<i, results>>
  /\ nreq' = nreq + n
  /\ UNCHANGED <<token, req, params, log, raw, outcome>>

SearchAttempt == SearchIteration(0)
DetailAttempt == DetailIteration(0)

\* lines 90-91, then 94-95: the dict is merged into the item and the item goes
\* to the filter
Merge ==
  /\ pc = "merge"
  /\ pc' = "loop"
  /\ raw' = [raw EXCEPT ![i] = Update(raw[i], detail[1])]
  /\ results' = Filtered(GetOrZero(raw'[i].like_count))
  /\ i' = i + 1
  /\ detail' = <<>>
  /\ UNCHANGED <<token, req, params, attempt, last_exc, log, calls, nreq, outcome>>

\* lines 96-97 and the handler's answer
Finish ==
  /\ pc = "loop"
  /\ i > Len(raw)
  /\ pc' = "done"
  /\ LET kept == [k \in 1..Len(results) |-> raw[results[k]]]
     IN outcome' = IF SortRaises(kept)
                   THEN Failed(req.entry, Raised("TypeError"))
                   ELSE Succeeded(req.entry, SortDesc(kept))
  /\ UNCHANGED <<token, req, params, attempt, last_exc, log, calls, raw, i, results, detail,
                 nreq>>

Next ==
  \/ RejectRequest
  \/ BeginSearch
  \/ SearchAttempt
  \/ StartLoop
  \/ Iterate
  \/ DetailAttempt
  \/ Merge
  \/ Finish

Spec == Init /\ [][Next]_vars

\* ------------------------------------------------- the requests.get calls counted
\* the same handling with every requests.get call (line 47) counted on nreq. A
\* handler runs on its thread until it returns or raises, and every
\* requests.get call ends, at the latest by its timeout (line 47): the handling
\* goes on as long as it has a step to take
CountedRequests ==
  {Request("search_and_filter", "k", 0, 200, None, None),
   Request("api_search", "", 0, 200, None, None)}
InitCounted == Init /\ req \in CountedRequests
SearchAttemptCounted == SearchIteration(1)
DetailAttemptCounted == DetailIteration(1)
NextCounted ==
  \/ RejectRequest
  \/ BeginSearch
  \/ SearchAttemptCounted
  \/ StartLoop
  \/ Iterate
  \/ DetailAttemptCounted
  \/ Merge
  \/ Finish
SpecCounted == InitCounted /\ [][NextCounted]_vars /\ WF_vars(NextCounted)

\* ---------------------------------------------------- api_export, lines 123-132
\* search_and_filter has handed rows to api_export
InitExport ==
  /\ token = TRUE
  /\ req = Request("api_export", "k", 0, 200, None, None)
  /\ pc = "rows"
  /\ params = [NoParams EXCEPT !.limit = 200]
  /\ attempt = 0
  /\ last_exc = NoExc
  /\ log = <<>>
  /\ calls = <<Call("keyword_search", 0, "returned")>>
  /\ \E n \in 0..MaxItems : \E f \in [1..n -> PostShapes] :
       raw = [k \in 1..n |-> Post(k, f[k])]
  /\ i = Len(raw) + 1
  /\ results = <<>>
  /\ detail = <<>>
  /\ nreq = 0
  /\ outcome = Pending

\* the CSV is written from rows and sent
ExportRows ==
  /\ pc = "rows"
  /\ pc' = "done"
  /\ outcome' = Succeeded(req.entry, raw)
  /\ UNCHANGED <<token, req, params, attempt, last_exc, log, calls, raw, i, results, detail,
                 nreq>>

NextExport == ExportRows

SpecExport == InitExport /\ [][NextExport]_vars

\* ================================================================ claims
\* readings of the keyword-search call's log
IsNet(e) == e.o.t = "exc"
IsStatus(e, set) == e.o.t = "resp" /\ e.o.status \in set
IsParsedOK(e) == e.o.t = "resp" /\ e.o.status = 200 /\ e.o.parsed # <<>>
StatusesOf(l) == [k \in 1..Len(l) |-> IF l[k].o.t = "resp" THEN l[k].o.status ELSE 0]
DataOf(e) == IF e.o.parsed[1].data = <<>> THEN <<>> ELSE e.o.parsed[1].data[1]
IsApi == req.entry \in {"api_search", "api_export"}

\* C1 as stated: a call issues at most 3 requests, and the first answer with
\* status 200 ends it: it is the last attempt, nothing is slept after it, and
\* the call returns that answer's body
C1_First200Returns ==
  /\ Len(log) <= 3
  /\ \A k \in 1..Len(log) :
       IsStatus(log[k], {200}) =>
         /\ k = Len(log)
         /\ log[k].slept = 0
         /\ pc = "searched"
         /\ log[k].o.parsed # <<>>
         /\ raw = DataOf(log[k])

\* C1 amended: a call issues at most 3 requests, and the first answer with
\* status 200 and a body that parses as JSON ends it: it is the last attempt,
\* nothing is slept after it, the call returns that body and keyword_search hands
\* its data list on; and the call returns in no other way
C1_FirstParsed200Returns ==
  /\ Len(log) <= 3
  /\ \A k \in 1..Len(log) :
       IsParsedOK(log[k]) =>
         /\ k = Len(log)
         /\ log[k].slept = 0
         /\ pc = "searched"
         /\ raw = DataOf(log[k])
         /\ calls = <<Call("keyword_search", 0, "returned")>>
         /\ outcome = Pending
  /\ pc = "searched" => log # <<>> /\ IsParsedOK(log[Len(log)])

\* C1 witness: 503, 503, 200 and the call has returned the 200 answer's data
C1_Witness ==
  /\ pc = "searched"
  /\ StatusesOf(log) = <<503, 503, 200>>
  /\ raw # <<>>
  /\ raw = DataOf(log[3])

\* C2: an answer of the keyword-search call whose status is neither 200 nor
\* retried ends the call there: it is the last attempt, nothing is slept, the
\* caller of search_and_filter gets an HTTPException with that status and that
\* body text, no detail call is made and no result is returned
C2_RejectedAtOnce ==
  \A k \in 1..Len(log) :
    (log[k].o.t = "resp" /\ log[k].o.status \notin {200, 429, 500, 502, 503, 504}) =>
      /\ k = Len(log)
      /\ log[k].slept = 0
      /\ pc = "done"
      /\ outcome.kind = "error"
      /\ outcome.exc.type = "HTTPException"
      /\ outcome.exc.status_code = log[k].o.status
      /\ outcome.exc.detail.text = log[k].o.text
      /\ IsApi => outcome.status = log[k].o.status
      /\ outcome.items = <<>>
      /\ calls = <<Call("keyword_search", 0, "raised")>>

\* C2 witness: a 404 on the second attempt, after a retried one
C2_Witness ==
  /\ Len(log) = 2
  /\ log[2].o.t = "resp" /\ log[2].o.status = 404 /\ log[2].o.text = "t2"
  /\ log[1].slept > 0
  /\ outcome.status = 404

\* an answer that made the call fail with the upstream's own status and text
FailedWithUpstreamStatus(k) ==
  /\ k = Len(log)
  /\ pc = "done"
  /\ outcome.exc.type = "HTTPException"
  /\ outcome.exc.detail.cause = NoExc
  /\ outcome.exc.detail.text = log[k].o.text

\* what follows an answer that is retried: the sleep of 1.5 s x the attempt's
\* number, then another request while attempts are left
RetriedAt(k) ==
  /\ log[k].slept = RetrySleepTenths * k
  /\ k < 3 => (k < Len(log) \/ pc = "search")
  /\ ~FailedWithUpstreamStatus(k)

\* C3 as stated: every answer with status 429 or 500..599 is retried
C3_Every5xxRetried ==
  \A k \in 1..Len(log) : IsStatus(log[k], {429} \cup 500..599) => RetriedAt(k)

\* C3 amended: every answer with status 429, 500, 502, 503 or 504 is retried:
\* the client sleeps and, on an attempt that is not the last, issues another
\* request; it never fails at once with the upstream status. (The other 5xx
\* statuses, 501 for one, are not retried.)
C3_ListedStatusesRetried ==
  \A k \in 1..Len(log) : IsStatus(log[k], {429, 500, 502, 503, 504}) => RetriedAt(k)

\* C3 witness: a 502 on the first attempt, slept after, and a second request made
C3_Witness ==
  /\ Len(log) = 2
  /\ IsStatus(log[1], {502})
  /\ log[1].slept = 15

\* all three attempts ended in a failure of requests.get or a retried status
AllFailed(l) ==
  /\ Len(l) = 3
  /\ \A k \in 1..3 : IsNet(l[k]) \/ IsStatus(l[k], {429, 500, 502, 503, 504})

\* the call failed as a gateway error of status 502
GatewayError ==
  /\ pc = "done"
  /\ outcome.kind = "error"
  /\ outcome.exc.type = "HTTPException"
  /\ outcome.exc.status_code = 502
  /\ IsApi => outcome.status = 502
  /\ calls = <<Call("keyword_search", 0, "raised")>>

\* C4 as stated: after three failed attempts the call fails with status 502 and
\* the error wraps the failure of the final attempt
C4_WrapsFinalFailure ==
  AllFailed(log) =>
    /\ GatewayError
    /\ IsNet(log[3])
    /\ outcome.exc.detail.cause = RequestExc(log[3].o.kind)

RECURSIVE LastRaised(_, _)
\* the exception of the latest attempt among l[1..k] that raised, if any
LastRaised(l, k) ==
  IF k = 0
  THEN NoExc
  ELSE IF IsNet(l[k]) THEN RequestExc(l[k].o.kind) ELSE LastRaised(l, k - 1)

\* C4 amended: after three failed attempts the call fails with status 502 and
\* never returns; the error wraps the exception of the latest attempt that
\* raised one, which need not be the final attempt, and wraps nothing when every
\* attempt ended in a retried status
C4_WrapsLastRaised ==
  AllFailed(log) =>
    /\ GatewayError
    /\ outcome.exc.detail.cause = LastRaised(log, 3)

\* C4 witness: a connection failure, then 503 twice: the error wraps the
\* exception of the first attempt
C4_Witness ==
  /\ AllFailed(log)
  /\ IsNet(log[1]) /\ IsStatus(log[2], {503}) /\ IsStatus(log[3], {503})
  /\ outcome.exc.detail.cause = RequestExc("ConnectionError")

\* readings of a finished search_and_filter
Returned == pc = "done" /\ outcome.kind = "ok"
\* an item's like-count, 0 when the key is absent or holds null
Likes(item) == IF item.like_count.k = "int" THEN item.like_count.v ELSE 0
IdsOf(items) == {items[k].id : k \in 1..Len(items)}

\* C5: the returned sequence holds exactly the search items whose final
\* like-count (0 when absent or null) is >= min_likes, each once and as it
\* stands in the list after enrichment
C5_ExactlyAtOrAboveThreshold ==
  (Returned /\ req.min_likes >= 0) =>
    /\ IdsOf(outcome.items) = {j \in 1..Len(raw) : Likes(raw[j]) >= req.min_likes}
    /\ Cardinality(IdsOf(outcome.items)) = Len(outcome.items)
    /\ \A k \in 1..Len(outcome.items) : outcome.items[k] = raw[outcome.items[k].id]

\* C5 witness: a threshold above 0, a detail call that returned, one item
\* kept at the threshold and one dropped
C5_Witness ==
  /\ Returned
  /\ req.min_likes = 1
  /\ Len(raw) = 2 /\ Len(outcome.items) = 1
  /\ Likes(outcome.items[1]) = 1
  /\ \E k \in 1..Len(calls) : calls[k].url = "media" /\ calls[k].result = "returned"

\* C6: the returned sequence has non-increasing like-counts (0 when missing),
\* and items of equal like-count stand in the order of the search response
\* (an item's id is its position there)
C6_DescendingStable ==
  Returned =>
    \A a, b \in 1..Len(outcome.items) :
      a < b =>
        /\ Likes(outcome.items[a]) >= Likes(outcome.items[b])
        /\ Likes(outcome.items[a]) = Likes(outcome.items[b]) =>
             outcome.items[a].id < outcome.items[b].id

\* C6 witness: two items of equal like-count returned, one of them without
\* the key
C6_Witness ==
  /\ Returned
  /\ Len(outcome.items) = 2
  /\ outcome.items[1].like_count = Absent
  /\ outcome.items[2].like_count = IntV(0)

\* the loop over the search response ran to its end
LoopDone == pc = "done" /\ i > Len(raw)
DetailRaised(id) == \E k \in 1..Len(calls) : calls[k] = Call("media", id, "raised")

\* C7: with every detail call that was made failing, search_and_filter still
\* returns, and with min_likes 0 every item whose detail call failed and that
\* has no like-count value is in the result
C7_FailedDetailIsAbsorbed ==
  (/\ LoopDone
   /\ \A k \in 1..Len(calls) : calls[k].url = "media" => calls[k].result = "raised") =>
    /\ outcome.kind = "ok"
    /\ \A j \in 1..Len(raw) :
         (DetailRaised(j) /\ IsNone(raw[j].like_count) /\ req.min_likes = 0) =>
           j \in IdsOf(outcome.items)

\* a since or until that is non-empty and no date
BadDate(d) == d = "notadate"

\* C8: an unparsable since or until ends /api/search and /api/export with a
\* 4xx answer, and no upstream request is issued
C8_BadDateIsClientError ==
  (pc = "done" /\ IsApi /\ (BadDate(req.since) \/ BadDate(req.until))) =>
    /\ outcome.status >= 400 /\ outcome.status <= 499
    /\ calls = <<>> /\ log = <<>>

C10_LimitClampedOneCall ==
  calls # <<>> =>
    /\ params.limit = (IF req.limit < 1 THEN 1 ELSE IF req.limit > 200 THEN 200 ELSE req.limit)
    /\ params.limit >= 1 /\ params.limit <= 200
    /\ calls[1].url = "keyword_search"
    /\ \A k \in 2..Len(calls) : calls[k].url = "media"

\* C10 witness: limit 500 was sent as 200 and the invocation returned after
\* one keyword-search call
C10_Witness ==
  /\ Returned
  /\ req.limit = 500
  /\ params.limit = 200
  /\ Len(raw) = MaxItems
  /\ Cardinality({k \in 1..Len(calls) : calls[k].url = "keyword_search"}) = 1

\* the request was refused by the framework before the handler ran
Refused == pc = "done" /\ outcome.exc.type = "RequestValidationError"

\* C11: /api/search and /api/export take up a request only when q is not
\* empty, min_likes >= 0 and 1 <= limit <= 500; any other request is refused,
\* on either endpoint alike, and refused before any upstream call
C11_SameValidationBothEndpoints ==
  (IsApi /\ pc # "start") =>
    /\ Refused <=> ~(req.q # "" /\ req.min_likes >= 0 /\ req.limit >= 1 /\ req.limit <= 500)
    /\ Refused => (calls = <<>> /\ log = <<>> /\ outcome.status = ValidationStatus)

\* the eight columns of the export, in their order
Columns == <<"id", "permalink", "text", "username", "like_count", "reply_count",
             "repost_count", "created_time">>
\* the post has a value for the column: the key is there and holds no null
HasValue(post, col) ==
  /\ col \in DOMAIN post
  /\ CASE col = "id" -> TRUE
       [] col = "like_count" -> post.like_count.k = "int"
       [] col = "permalink" -> post.permalink # NoKey
       [] OTHER -> post[col] # None
\* the cell shows the post's value for the column
ShowsValue(cell, post, col) ==
  IF col \in {"id", "like_count"}
  THEN cell.k = "int" /\ cell.n = (IF col = "id" THEN post.id ELSE post.like_count.v)
  ELSE cell.k = "str" /\ cell.s = post[col]

\* C12: the export of n posts has exactly 1 + n records: first the header with
\* the eight column names in their order, also for n = 0, then one record per
\* post in the order of the posts, each of exactly eight cells, where cell c
\* shows the post's value for column c and is empty when the post has none; a
\* key that is no column adds no cell and no record
C12_CsvShape ==
  (pc = "done" /\ req.entry = "api_export" /\ outcome.kind = "ok") =>
    LET csv == outcome.csv
        rows == outcome.items
    IN /\ Len(csv) = 1 + Len(rows)
       /\ Len(csv[1]) = 8
       /\ \A c \in 1..8 : csv[1][c].k = "str" /\ csv[1][c].s = Columns[c]
       /\ \A k \in 1..Len(rows) :
            /\ DOMAIN csv[k + 1] = 1..8
            /\ \A c \in 1..8 :
                 IF HasValue(rows[k], Columns[c])
                 THEN ShowsValue(csv[k + 1][c], rows[k], Columns[c])
                 ELSE csv[k + 1][c].k = "empty"

\* C12 witness: two posts exported, the first with a text and a key that is no
\* column, the second without a text and without a like-count value
C12_Witness ==
  /\ pc = "done" /\ outcome.kind = "ok"
  /\ Len(outcome.csv) = 3
  /\ "shortcode" \in DOMAIN raw[1] /\ "text" \in DOMAIN raw[1]
  /\ outcome.csv[2][3].s = "hello"
  /\ "text" \notin DOMAIN raw[2]
  /\ raw[2].like_count = Null
  /\ outcome.csv[3][5].k = "empty"

\* the item has no like-count value (no key, or null) or no permalink key
Lacking(item) == item.like_count.k # "int" \/ item.permalink = NoKey
HasDetailCall(id) == \E k \in 1..Len(calls) : calls[k].url = "media" /\ calls[k].id = id

\* C13: the loop's step for an item starts a detail call for it exactly when
\* the item has no like-count value or no permalink key; an item with both goes
\* to the filter in that step with the list unchanged; a detail call is started
\* by such a step only; and an item the loop has passed without a detail call
\* has both fields
C13_DetailIffLacking ==
  /\ [][/\ (pc = "loop" /\ i <= Len(raw)) =>
             /\ Lacking(raw[i]) <=>
                  (pc' = "detail" /\ calls' = Append(calls, Call("media", raw[i].id, "pending")))
             /\ ~Lacking(raw[i]) => (raw' = raw /\ calls' = calls /\ i' = i + 1)
        /\ (calls # <<>> /\ Len(calls') > Len(calls)) =>
             (pc = "loop" /\ i <= Len(raw) /\ Lacking(raw[i]))]_vars
  /\ [](pc \in {"loop", "detail", "merge", "done"} =>
          \A j \in 1..Len(raw) : (j < i /\ ~HasDetailCall(raw[j].id)) => ~Lacking(raw[j]))

\* C13 witness: the loop has passed two items, the first went to the filter
\* without a detail call, the second, with a like-count but no permalink, had one
C13_Witness ==
  /\ pc = "loop" /\ i = 3
  /\ ~HasDetailCall(1) /\ ~Lacking(raw[1])
  /\ HasDetailCall(2)
  /\ calls[2].result = "raised"
  /\ raw[2].like_count.k = "int" /\ raw[2].permalink = NoKey

\* C14: the upstream calls of one invocation come one after another: the
\* first is the one keyword-search call, every later one a detail call; a call
\* has ended before the next one starts, so only the last can be under way;
\* detail calls follow the order of the items in the response, at most one per
\* item; and after a keyword-search call that failed there is no other call
C14_CallsInSequence ==
  calls # <<>> =>
    /\ calls[1].url = "keyword_search"
    /\ \A k \in 2..Len(calls) : calls[k].url = "media" /\ calls[k].id \in 1..Len(raw)
    /\ \A k \in 1..Len(calls) - 1 : calls[k].result \in {"returned", "raised"}
    /\ calls[Len(calls)].result = "pending" <=> pc \in {"search", "detail"}
    /\ Len(calls) >= 2 => calls[1].result = "returned"
    /\ calls[1].result = "raised" => (Len(calls) = 1 /\ pc = "done" /\ raw = <<>>)
    /\ \A a, b \in 2..Len(calls) : a < b => calls[a].id < calls[b].id
    /\ pc = "detail" => calls[Len(calls)].id = i

\* C14 witness: after the keyword-search call, the detail call of the first
\* item has ended and that of the second is under way
C14_Witness ==
  /\ pc = "detail"
  /\ Len(calls) = 3
  /\ calls[1] = Call("keyword_search", 0, "returned")
  /\ calls[2] = Call("media", 1, "raised")
  /\ calls[3] = Call("media", 2, "pending")

\* the attempts of the keyword-search call that were followed by a sleep
Waits == {k \in 1..Len(log) : log[k].slept > 0}

\* C15: every wait of a client call is followed by another request of that
\* call, so the call waits at most twice, and after its third failed attempt it
\* fails without a wait
C15_WaitsOnlyBetweenAttempts ==
  /\ \A k \in Waits : k < Len(log) \/ pc = "search"
  /\ Cardinality(Waits) <= 2
  /\ Len(log) = 3 => log[3].slept = 0

\* C16: when the detail call of an item has returned, the merge gives the item,
\* for each key, the detail's value where the detail has the key and the
\* item's own value where it has not, and touches no other item; while a detail
\* call is under way, and when it fails, the list is left as it is
C16_MergeOrUntouched ==
  [][/\ pc = "merge" =>
          /\ pc' = "loop"
          /\ Len(raw') = Len(raw)
          /\ \A j \in 1..Len(raw) : j # i => raw'[j] = raw[j]
          /\ raw'[i].id = raw[i].id
          /\ raw'[i].like_count =
               (IF detail[1].like_count.k = "absent"
                THEN raw[i].like_count ELSE detail[1].like_count)
          /\ raw'[i].permalink =
               (IF detail[1].permalink = NoKey THEN raw[i].permalink ELSE detail[1].permalink)
     /\ pc = "detail" => raw' = raw
     /\ (pc = "detail" /\ calls'[Len(calls')].result = "raised") => (pc' = "loop" /\ i' = i + 1)
     /\ pc # "merge" => (raw' = raw \/ pc = "search")]_vars

\* C16 witness: the detail call of the first item returned and the merged item
\* has a like-count and still no permalink (the detail had none); the detail
\* call of the second item failed and the item still lacks what it lacked
C16_Witness ==
  /\ pc = "loop" /\ i = 3
  /\ Len(calls) = 3
  /\ calls[2] = Call("media", 1, "returned")
  /\ raw[1] = Item(1, IntV(1), NoKey)
  /\ calls[3] = Call("media", 2, "raised")
  /\ raw[2] = Item(2, Null, "p")

\* the steps one item can take at most: the loop's step, the three attempts of
\* its detail call, the merge
StepsPerItem == 2 + MaxAttempts
\* an upper bound on the steps the handling has left
StepsLeft ==
  CASE pc = "start" -> 4 + MaxAttempts + StepsPerItem * MaxItems
    [] pc = "search" -> 3 + (MaxAttempts - attempt) + StepsPerItem * MaxItems
    [] pc = "searched" -> 2 + StepsPerItem * Len(raw)
    [] pc = "loop" -> 1 + StepsPerItem * (Len(raw) + 1 - i)
    [] pc = "detail" -> 2 + (MaxAttempts - attempt) + StepsPerItem * (Len(raw) - i)
    [] pc = "merge" -> 2 + StepsPerItem * (Len(raw) - i)
    [] OTHER -> 0

\* C17: an invocation whose every request is answered or fails comes to its
\* end, with a result or an error: it always has a step to take until it has
\* ended, and every step brings the end nearer; and at any time it has issued
\* at most 3 requests for each of its client calls, of which there are at most
\* 1 + n for a search response of n items: at most 3 x (1 + n) requests in all
C17_TerminatesWithinBudget ==
  /\ [](/\ nreq <= 3 * Len(calls)
        /\ Len(calls) <= 1 + Len(raw)
        /\ nreq <= 3 * (1 + Len(raw)))
  /\ [](pc = "done" \/ ENABLED NextCounted)
  /\ [][StepsLeft' < StepsLeft /\ StepsLeft' >= 0]_vars
  /\ [](pc = "done" <=> StepsLeft = 0)

\* C17 witness: a response of two items, and the invocation has ended after
\* 9 requests
C17_Witness ==
  /\ pc = "done"
  /\ Len(raw) = 2
  /\ nreq = 9

====
